---- MODULE Spec2Model ----
(***************************************************************************)
(* Model of starlette_prometheus.PrometheusMiddleware                      *)
(* (src/starlette_prometheus/middleware.py).                               *)
(*                                                                         *)
(* The registry-held metrics are functions from the label sets created so  *)
(* far to their values.  Every request is one task running dispatch; its   *)
(* position (pc) is named after the source line it is about to execute.    *)
(* dispatch runs on the event loop: between two awaits a task is not       *)
(* interleaved with another task (running names the task that holds the    *)
(* loop, 0 when none does).  The only await of dispatch is call_next.      *)
(***************************************************************************)
EXTENDS Integers, Sequences, FiniteSets, TLC

VARIABLES
    registered,                 \* the name and the label names each metric was constructed with
    filter_unhandled_paths,     \* self.filter_unhandled_paths
    routes,                     \* request.app.routes, in registration order
    requests,                   \* self.requests                 (Counter)
    responses,                  \* self.responses                (Counter)
    requests_processing_time,   \* self.requests_processing_time (Histogram, count of observations)
    exceptions,                 \* self.exceptions               (Counter)
    requests_in_progress,       \* self.requests_in_progress     (Gauge)
    task,                       \* one record per request: the locals of its dispatch call
    running                     \* the task that holds the event loop, 0 when none

vars == <<registered, filter_unhandled_paths, routes, requests, responses, requests_processing_time,
          exceptions, requests_in_progress, task, running>>

metrics == <<requests, responses, requests_processing_time, exceptions, requests_in_progress>>

----------------------------------------------------------------------------
(* Bounds and input sets *)

NumRequests == 2

Reqs == 1..NumRequests

\* The requests received, each a method and a path (the sequence of its segments):
\* GET /foo/baz/, GET /any/, GET /metrics/, POST /metrics/
Requests ==
    {[method |-> "GET", path |-> <<"foo", "baz">>],
     [method |-> "GET", path |-> <<"any">>],
     [method |-> "GET", path |-> <<"metrics">>],
     [method |-> "POST", path |-> <<"metrics">>]}

StatusCodes == {200, 404}

\* Errors call_next can raise: type(e).__name__ and isinstance(e, Exception).
\* asyncio.CancelledError derives from BaseException (Python 3.8 and later),
\* asyncio.TimeoutError from Exception.
Errors ==
    {[type |-> "ValueError", is_exception |-> TRUE],
     [type |-> "TimeoutError", is_exception |-> TRUE],
     [type |-> "CancelledError", is_exception |-> FALSE]}

\* Path segments that are path parameters
ParamSegments == {"{bar}", "{name}"}

\* The application of the tests: /metrics/, /foo/, /bar/, /foo/{bar}/
InitialRoutes ==
    << [path |-> <<"metrics">>, methods |-> {"GET", "HEAD"}, endpoint |-> "metrics"],
       [path |-> <<"foo">>, methods |-> {"GET", "HEAD"}, endpoint |-> "foo"],
       [path |-> <<"bar">>, methods |-> {"GET", "HEAD"}, endpoint |-> "bar"],
       [path |-> <<"foo", "{bar}">>, methods |-> {"GET", "HEAD"}, endpoint |-> "foobar"] >>

\* Routes the application may register later, each once: /{name}/ for GET, HEAD and POST
ExtraRoutes ==
    {[path |-> <<"{name}">>, methods |-> {"GET", "HEAD", "POST"}, endpoint |-> "named"]}

\* The prefixes the middleware is constructed with: the default, that of the tests,
\* and one that is itself the beginning of every unprefixed name
Prefixes == {"", "test_", "starlette_"}

----------------------------------------------------------------------------
(* Construction *)

\* The attributes of the middleware that hold a metric
MetricAttributes ==
    {"requests", "responses", "requests_processing_time", "exceptions", "requests_in_progress"}

\* Mutant of __init__: the prefix is appended to the name, not put before it
__init___Appended(prefix) ==
    [requests |->
        [name |-> "starlette_requests_total" \o prefix,
         labelnames |-> <<"method", "path_template">>],
     responses |->
        [name |-> "starlette_responses_total" \o prefix,
         labelnames |-> <<"method", "path_template", "status_code">>],
     requests_processing_time |->
        [name |-> "starlette_requests_processing_time_seconds" \o prefix,
         labelnames |-> <<"method", "path_template">>],
     exceptions |->
        [name |-> "starlette_exceptions_total" \o prefix,
         labelnames |-> <<"method", "path_template", "exception_type">>],
     requests_in_progress |->
        [name |-> "starlette_requests_in_progress" \o prefix,
         labelnames |-> <<"method", "path_template">>]]

\* __init__, lines 17-41: the name and the label names of each of the five metrics
__init__(prefix) ==
    [requests |->
        [name |-> prefix \o "starlette_requests_total",
         labelnames |-> <<"method", "path_template">>],
     responses |->
        [name |-> prefix \o "starlette_responses_total",
         labelnames |-> <<"method", "path_template", "status_code">>],
     requests_processing_time |->
        [name |-> prefix \o "starlette_requests_processing_time_seconds",
         labelnames |-> <<"method", "path_template">>],
     exceptions |->
        [name |-> prefix \o "starlette_exceptions_total",
         labelnames |-> <<"method", "path_template", "exception_type">>],
     requests_in_progress |->
        [name |-> prefix \o "starlette_requests_in_progress",
         labelnames |-> <<"method", "path_template">>]]

----------------------------------------------------------------------------
(* The metrics registry: labels(...).inc(), .dec(), .observe() *)

\* The value of a metric for a label set (0 when the label set was never created)
Value(metric, labels) == IF labels \in DOMAIN metric THEN metric[labels] ELSE 0

\* counter.labels(...).inc(): creates the label set on first use
CounterInc(metric, labels) ==
    IF labels \in DOMAIN metric
    THEN [metric EXCEPT ![labels] = @ + 1]
    ELSE metric @@ (labels :> 1)

\* Mutant of GaugeInc: the value is set to 1, not raised by 1
GaugeInc_Set(metric, labels) ==
    IF labels \in DOMAIN metric
    THEN [metric EXCEPT ![labels] = 1]
    ELSE metric @@ (labels :> 1)

\* gauge.labels(...).inc(): creates the label set on first use
GaugeInc(metric, labels) ==
    IF labels \in DOMAIN metric
    THEN [metric EXCEPT ![labels] = @ + 1]
    ELSE metric @@ (labels :> 1)

\* gauge.labels(...).dec(): creates the label set on first use
GaugeDec(metric, labels) ==
    IF labels \in DOMAIN metric
    THEN [metric EXCEPT ![labels] = @ - 1]
    ELSE metric @@ (labels :> -1)

\* Mutant of HistogramObserve: the observation is counted twice
HistogramObserve_Twice(metric, labels) ==
    IF labels \in DOMAIN metric
    THEN [metric EXCEPT ![labels] = @ + 2]
    ELSE metric @@ (labels :> 2)

\* histogram.labels(...).observe(amount): one more observation
HistogramObserve(metric, labels) ==
    IF labels \in DOMAIN metric
    THEN [metric EXCEPT ![labels] = @ + 1]
    ELSE metric @@ (labels :> 1)

\* What the metrics endpoint reads when it renders: the current value of every metric
Registry ==
    [requests |-> requests,
     responses |-> responses,
     requests_processing_time |-> requests_processing_time,
     exceptions |-> exceptions,
     requests_in_progress |-> requests_in_progress]

\* The body of the response of the metrics endpoint
Exposition == <<"exposition">>

----------------------------------------------------------------------------
(* Route matching and path templates *)

\* The path regex of a route: same number of segments, a parameter matches any segment
PathMatches(pattern, path) ==
    /\ Len(pattern) = Len(path)
    /\ \A i \in 1..Len(pattern) : pattern[i] \in ParamSegments \/ pattern[i] = path[i]

\* route.matches(request.scope)
matches(route, request) ==
    IF PathMatches(route.path, request.path)
    THEN IF request.method \in route.methods THEN "FULL" ELSE "PARTIAL"
    ELSE "NONE"

\* Mutant of ScanRoutes: the loop does not stop at the first full match, the last one wins
ScanRoutes_LastMatch(rs, i, request) ==
    LET full == {j \in i..Len(rs) : matches(rs[j], request) = "FULL"}
    IN  IF full = {}
        THEN <<request.path, FALSE>>
        ELSE <<rs[CHOOSE j \in full : \A k \in full : k <= j].path, TRUE>>

\* Mutant of ScanRoutes: the loop stops at the first route that matches at all,
\* fully or partially
ScanRoutes_AcceptsPartial(rs, i, request) ==
    LET hits == {j \in i..Len(rs) : matches(rs[j], request) # "NONE"}
    IN  IF hits = {}
        THEN <<request.path, FALSE>>
        ELSE <<rs[CHOOSE j \in hits : \A k \in hits : j <= k].path, TRUE>>

RECURSIVE ScanRoutes(_, _, _)
\* The loop of get_path_template, from route i on
ScanRoutes(rs, i, request) ==
    IF i > Len(rs)
    THEN <<request.path, FALSE>>
    ELSE IF matches(rs[i], request) = "FULL"
         THEN <<rs[i].path, TRUE>>
         ELSE ScanRoutes(rs, i + 1, request)

get_path_template(rs, request) == ScanRoutes(rs, 1, request)

\* Mutant of _is_path_filtered: the option is ignored, nothing is filtered
_is_path_filtered_Never(is_handled_path) == FALSE

\* Mutant of _is_path_filtered: the option is ignored, every unhandled path is filtered
_is_path_filtered_Always(is_handled_path) == ~is_handled_path

_is_path_filtered(is_handled_path) == filter_unhandled_paths /\ ~is_handled_path

\* The endpoint the router hands the request to: that of the first fully
\* matching route, "" when there is none
Endpoint(rs, request) ==
    LET full == {i \in 1..Len(rs) : matches(rs[i], request) = "FULL"}
    IN  IF full = {} THEN ""
        ELSE rs[CHOOSE i \in full : \A j \in full : i <= j].endpoint

----------------------------------------------------------------------------
(* Tasks *)

NoOutcome == [kind |-> "none", status_code |-> 0, body |-> <<>>, type |-> "", is_exception |-> FALSE]

ResponseOf(status_code, body) ==
    [kind |-> "response", status_code |-> status_code, body |-> body, type |-> "", is_exception |-> FALSE]

ErrorOf(e) ==
    [kind |-> "error", status_code |-> 0, body |-> <<>>, type |-> e.type, is_exception |-> e.is_exception]

\* Mutant of Reraise: the error is wrapped in an error of dispatch's own
Reraise_Wrapped(e) == [e EXCEPT !.type = "RuntimeError", !.is_exception = TRUE]

\* raise e from None: the error raised is e itself
Reraise(e) == e

IdleTask ==
    [pc |-> "idle", method |-> "", path |-> <<>>, path_template |-> <<>>,
     is_handled_path |-> FALSE, rendered |-> <<>>, outcome |-> NoOutcome, result |-> NoOutcome,
     calls |-> 0, incs |-> 0, decs |-> 0]

RequestOf(r) == [method |-> task[r].method, path |-> task[r].path]

\* Mutant of Labels: the path template is looked up again at every update
Labels_LookedUpAgain(r) == <<task[r].method, get_path_template(routes, RequestOf(r))[1]>>

\* (method, path_template) of the task
Labels(r) == <<task[r].method, task[r].path_template>>

\* Mutant of ResponseLabels: every response is counted as a 200
ResponseLabels_Always200(r) == <<task[r].method, task[r].path_template, 200>>

\* line 63: (method, path_template, response.status_code)
ResponseLabels(r) == <<task[r].method, task[r].path_template, task[r].outcome.status_code>>

\* Mutant of ExceptionLabels: the label is the caught class, not the concrete one
ExceptionLabels_BaseClass(r, e) == <<task[r].method, task[r].path_template, "Exception">>

\* line 57: (method, path_template, type(e).__name__)
ExceptionLabels(r, e) == <<task[r].method, task[r].path_template, e.type>>

\* Mutant of Catches: except BaseException
Catches_BaseException(e) == TRUE

\* line 56: except Exception
Catches(e) == e.is_exception

\* The middleware is constructed with the default prefix
Init ==
    /\ registered = __init__("")
    /\ filter_unhandled_paths \in BOOLEAN
    /\ routes = InitialRoutes
    /\ requests = <<>>
    /\ responses = <<>>
    /\ requests_processing_time = <<>>
    /\ exceptions = <<>>
    /\ requests_in_progress = <<>>
    /\ task = [r \in Reqs |-> IdleTask]
    /\ running = 0

----------------------------------------------------------------------------
(* Actions *)

\* app.add_route(path, endpoint): appends to the routes
AddRoute(route) ==
    /\ running = 0
    /\ \A i \in 1..Len(routes) : routes[i] # route
    /\ routes' = Append(routes, route)
    /\ UNCHANGED <<registered, filter_unhandled_paths, metrics, task, running>>

\* Mutant of Enter: line 50 is missing
Enter_NoIncrement(r, request) ==
    /\ running = 0
    /\ task[r].pc = "idle"
    /\ r > 1 => task[r - 1].pc # "idle"
    /\ LET t == get_path_template(routes, request)
           filtered == _is_path_filtered(t[2])
       IN  /\ task' = [task EXCEPT ![r] = [@ EXCEPT !.method = request.method,
                                                     !.path = request.path,
                                                     !.path_template = t[1],
                                                     !.is_handled_path = t[2],
                                                     !.calls = IF filtered THEN 1 ELSE 0,
                                                     !.pc = IF filtered THEN "L48" ELSE "L51"]]
           /\ running' = IF filtered THEN 0 ELSE r
    /\ UNCHANGED <<registered, filter_unhandled_paths, routes, metrics>>

\* dispatch, lines 44-50: the labels of the request, then the bypass (the task
\* awaits call_next at line 48) or the increment of the in-flight gauge
Enter(r, request) ==
    /\ running = 0
    /\ task[r].pc = "idle"
    /\ r > 1 => task[r - 1].pc # "idle"
    /\ LET t == get_path_template(routes, request)
           filtered == _is_path_filtered(t[2])
           labels == <<request.method, t[1]>>
       IN  /\ task' = [task EXCEPT ![r] = [@ EXCEPT !.method = request.method,
                                                     !.path = request.path,
                                                     !.path_template = t[1],
                                                     !.is_handled_path = t[2],
                                                     !.calls = IF filtered THEN 1 ELSE 0,
                                                     !.incs = IF filtered THEN 0 ELSE 1,
                                                     !.pc = IF filtered THEN "L48" ELSE "L51"]]
           /\ requests_in_progress' = IF filtered
                                      THEN requests_in_progress
                                      ELSE GaugeInc(requests_in_progress, labels)
           /\ running' = IF filtered THEN 0 ELSE r
    /\ UNCHANGED <<registered, filter_unhandled_paths, routes, requests, responses,
                   requests_processing_time, exceptions>>

\* Mutant of IncRequests: line 51 is moved after the await, call_next is called
\* before the request is counted
IncRequests_AfterCall(r) ==
    /\ running = r
    /\ task[r].pc = "L51"
    /\ task' = [task EXCEPT ![r].pc = "L54", ![r].calls = @ + 1]
    /\ running' = 0
    /\ UNCHANGED <<registered, filter_unhandled_paths, routes, metrics>>

\* lines 51-54: count the request, then await call_next
IncRequests(r) ==
    /\ running = r
    /\ task[r].pc = "L51"
    /\ requests' = CounterInc(requests, Labels(r))
    /\ task' = [task EXCEPT ![r].pc = "L54", ![r].calls = @ + 1]
    /\ running' = 0
    /\ UNCHANGED <<registered, filter_unhandled_paths, routes, responses,
                   requests_processing_time, exceptions, requests_in_progress>>

\* The metrics endpoint, while the task awaits call_next: reads the registry and
\* renders it.  The endpoint is a plain function, run in a worker thread, so it
\* may read the registry while another task holds the event loop.
Render(r) ==
    /\ task[r].pc \in {"L48", "L54"}
    /\ Endpoint(routes, RequestOf(r)) = "metrics"
    /\ task[r].rendered = <<>>
    /\ task' = [task EXCEPT ![r].rendered = Exposition]
    /\ UNCHANGED <<registered, filter_unhandled_paths, routes, metrics, running>>

\* line 48: a filtered request returns what call_next returns or raises
Bypass(r, outcome) ==
    /\ running = 0
    /\ task[r].pc = "L48"
    /\ task' = [task EXCEPT ![r].outcome = outcome, ![r].result = outcome, ![r].pc = "done"]
    /\ UNCHANGED <<registered, filter_unhandled_paths, routes, metrics, running>>

\* lines 54-62: call_next returns a response, its processing time is observed
CallNextReturns(r, status_code) ==
    /\ running = 0
    /\ task[r].pc = "L54"
    /\ requests_processing_time' = HistogramObserve(requests_processing_time, Labels(r))
    /\ task' = [task EXCEPT ![r].outcome = ResponseOf(status_code, task[r].rendered),
                            ![r].pc = "L63"]
    /\ running' = r
    /\ UNCHANGED <<registered, filter_unhandled_paths, routes, requests, responses,
                   exceptions, requests_in_progress>>

\* Mutant of CallNextRaises: the error is counted and call_next is called again
CallNextRaises_Retried(r, e) ==
    /\ running = 0
    /\ task[r].pc = "L54"
    /\ task' = [task EXCEPT ![r].calls = @ + 1]
    /\ exceptions' = IF Catches(e)
                     THEN CounterInc(exceptions, ExceptionLabels(r, e))
                     ELSE exceptions
    /\ UNCHANGED <<registered, filter_unhandled_paths, routes, requests, responses,
                   requests_processing_time, requests_in_progress, running>>

\* Mutant of CallNextRaises: there is no except clause, the error is not counted
CallNextRaises_Uncounted(r, e) ==
    /\ running = 0
    /\ task[r].pc = "L54"
    /\ task' = [task EXCEPT ![r].outcome = ErrorOf(e), ![r].pc = "L65"]
    /\ running' = r
    /\ UNCHANGED <<registered, filter_unhandled_paths, routes, metrics>>

\* lines 54-58: call_next raises; except Exception catches the instances of
\* Exception, counts them and raises them again; the finally clause is next
CallNextRaises(r, e) ==
    /\ running = 0
    /\ task[r].pc = "L54"
    /\ task' = [task EXCEPT ![r].outcome = ErrorOf(e), ![r].pc = "L65"]
    /\ exceptions' = IF Catches(e)
                     THEN CounterInc(exceptions, ExceptionLabels(r, e))
                     ELSE exceptions
    /\ running' = r
    /\ UNCHANGED <<registered, filter_unhandled_paths, routes, requests, responses,
                   requests_processing_time, requests_in_progress>>

\* line 63
IncResponses(r) ==
    /\ running = r
    /\ task[r].pc = "L63"
    /\ responses' = CounterInc(responses, ResponseLabels(r))
    /\ task' = [task EXCEPT ![r].pc = "L65"]
    /\ UNCHANGED <<registered, filter_unhandled_paths, routes, requests,
                   requests_processing_time, exceptions, requests_in_progress, running>>

\* Mutant of DecInProgress: the decrement is a statement after the try block,
\* not its finally clause, so an error leaves dispatch before it
DecInProgress_NotFinally(r) ==
    /\ running = r
    /\ task[r].pc = "L65"
    /\ LET returned == task[r].outcome.kind = "response"
       IN  /\ requests_in_progress' = IF returned
                                      THEN GaugeDec(requests_in_progress, Labels(r))
                                      ELSE requests_in_progress
           /\ task' = [task EXCEPT ![r].pc = "done",
                                   ![r].decs = IF returned THEN @ + 1 ELSE @,
                                   ![r].result = task[r].outcome]
    /\ running' = 0
    /\ UNCHANGED <<registered, filter_unhandled_paths, routes, requests, responses,
                   requests_processing_time, exceptions>>

\* Mutant of DecInProgress: the decrement ends the else and the except clauses
\* instead of being the finally clause, so an error that except Exception does not
\* catch leaves dispatch before it
DecInProgress_OnlyWhenCaught(r) ==
    /\ running = r
    /\ task[r].pc = "L65"
    /\ LET released == task[r].outcome.kind = "response" \/ Catches(task[r].outcome)
       IN  /\ requests_in_progress' = IF released
                                      THEN GaugeDec(requests_in_progress, Labels(r))
                                      ELSE requests_in_progress
           /\ task' = [task EXCEPT ![r].pc = "done",
                                   ![r].decs = IF released THEN @ + 1 ELSE @,
                                   ![r].result = task[r].outcome]
    /\ running' = 0
    /\ UNCHANGED <<registered, filter_unhandled_paths, routes, requests, responses,
                   requests_processing_time, exceptions>>

\* Mutant of DecInProgress: dispatch returns a response of its own with the status
\* code of the response of call_next and no content
DecInProgress_NewResponse(r) ==
    /\ running = r
    /\ task[r].pc = "L65"
    /\ requests_in_progress' = GaugeDec(requests_in_progress, Labels(r))
    /\ task' = [task EXCEPT ![r].pc = "done",
                            ![r].decs = @ + 1,
                            ![r].result = IF task[r].outcome.kind = "error"
                                          THEN Reraise(task[r].outcome)
                                          ELSE ResponseOf(task[r].outcome.status_code, <<>>)]
    /\ running' = 0
    /\ UNCHANGED <<registered, filter_unhandled_paths, routes, requests, responses,
                   requests_processing_time, exceptions>>

\* lines 64-67: the finally clause, then the response is returned or the error goes on
DecInProgress(r) ==
    /\ running = r
    /\ task[r].pc = "L65"
    /\ requests_in_progress' = GaugeDec(requests_in_progress, Labels(r))
    /\ task' = [task EXCEPT ![r].pc = "done",
                            ![r].decs = @ + 1,
                            ![r].result = IF task[r].outcome.kind = "error"
                                          THEN Reraise(task[r].outcome)
                                          ELSE task[r].outcome]
    /\ running' = 0
    /\ UNCHANGED <<registered, filter_unhandled_paths, routes, requests, responses,
                   requests_processing_time, exceptions>>

Next ==
    \/ \E route \in ExtraRoutes : AddRoute(route)
    \/ \E r \in Reqs, request \in Requests : Enter(r, request)
    \/ \E r \in Reqs : IncRequests(r)
    \/ \E r \in Reqs : Render(r)
    \/ \E r \in Reqs, s \in StatusCodes : Bypass(r, ResponseOf(s, task[r].rendered))
    \/ \E r \in Reqs, e \in Errors : Bypass(r, ErrorOf(e))
    \/ \E r \in Reqs, s \in StatusCodes : CallNextReturns(r, s)
    \/ \E r \in Reqs, e \in Errors : CallNextRaises(r, e)
    \/ \E r \in Reqs : IncResponses(r)
    \/ \E r \in Reqs : DecInProgress(r)

Spec == Init /\ [][Next]_vars

\* The event loop runs the task that holds it up to its next await or to its end,
\* and every call of call_next finishes: it returns or it raises
Fairness ==
    \A r \in Reqs :
        /\ WF_vars(IncRequests(r))
        /\ WF_vars((\E s \in StatusCodes : CallNextReturns(r, s))
                        \/ (\E e \in Errors : CallNextRaises(r, e)))
        /\ WF_vars(IncResponses(r))
        /\ WF_vars(DecInProgress(r))

\* The steps of dispatch, for the routes the application starts with
NextDispatch ==
    \/ \E r \in Reqs, request \in Requests : Enter(r, request)
    \/ \E r \in Reqs : IncRequests(r)
    \/ \E r \in Reqs, s \in StatusCodes : Bypass(r, ResponseOf(s, task[r].rendered))
    \/ \E r \in Reqs, e \in Errors : Bypass(r, ErrorOf(e))
    \/ \E r \in Reqs, s \in StatusCodes : CallNextReturns(r, s)
    \/ \E r \in Reqs, e \in Errors : CallNextRaises(r, e)
    \/ \E r \in Reqs : IncResponses(r)
    \/ \E r \in Reqs : DecInProgress(r)

SpecFair == Init /\ [][NextDispatch]_vars /\ Fairness

\* The middleware is constructed with any of the prefixes, filter_unhandled_paths
\* being left at its default, for the application of the tests
InitPrefix ==
    /\ registered \in {__init__(prefix) : prefix \in Prefixes}
    /\ filter_unhandled_paths = FALSE
    /\ routes = InitialRoutes
    /\ requests = <<>>
    /\ responses = <<>>
    /\ requests_processing_time = <<>>
    /\ exceptions = <<>>
    /\ requests_in_progress = <<>>
    /\ task = [r \in Reqs |-> IdleTask]
    /\ running = 0

\* The steps of dispatch when nothing is bypassed and no route is added
NextPrefix ==
    \/ \E r \in Reqs, request \in Requests : Enter(r, request)
    \/ \E r \in Reqs : IncRequests(r)
    \/ \E r \in Reqs : Render(r)
    \/ \E r \in Reqs, s \in StatusCodes : CallNextReturns(r, s)
    \/ \E r \in Reqs, e \in Errors : CallNextRaises(r, e)
    \/ \E r \in Reqs : IncResponses(r)
    \/ \E r \in Reqs : DecInProgress(r)

SpecPrefix == InitPrefix /\ [][NextPrefix]_vars

----------------------------------------------------------------------------
(* The accounting the properties are stated with *)

\* The request was bypassed by filter_unhandled_paths
Filtered(r) == task[r].pc # "idle" /\ filter_unhandled_paths /\ ~task[r].is_handled_path

\* The request entered dispatch and was not bypassed
Instrumented(r) == task[r].pc # "idle" /\ ~Filtered(r)

\* Instrumented requests with the labels l that are at one of the positions pcs
TasksAt(l, pcs) == {q \in Reqs : Instrumented(q) /\ Labels(q) = l /\ task[q].pc \in pcs}

\* Requests that have been counted by line 51
CountedRequests(l) == Cardinality(TasksAt(l, {"L54", "L63", "L65", "done"}))

\* Requests whose response with status code s has been counted by line 63
CountedResponses(l, s) ==
    Cardinality({q \in TasksAt(l, {"L65", "done"}) :
                    task[q].outcome.kind = "response" /\ task[q].outcome.status_code = s})

\* Requests whose error of type ty, an instance of Exception, has been counted by line 57
CountedExceptions(l, ty) ==
    Cardinality({q \in TasksAt(l, {"L65", "done"}) :
                    /\ task[q].outcome.kind = "error"
                    /\ task[q].outcome.is_exception
                    /\ task[q].outcome.type = ty})

\* Requests whose processing time has been observed by line 60
CountedObservations(l) ==
    Cardinality({q \in TasksAt(l, {"L63", "L65", "done"}) : task[q].outcome.kind = "response"})

\* Requests between the increment of line 50 and the decrement of line 65
InFlight(l) == Cardinality(TasksAt(l, {"L51", "L54", "L63", "L65"}))

ErrorTypes == {e.type : e \in Errors}

\* The label sets of the requests received, and those some metric holds
KnownLabels == {Labels(q) : q \in Reqs} \cup DOMAIN requests \cup DOMAIN requests_in_progress

----------------------------------------------------------------------------
(* C1 *)

\* C1: a request that enters dispatch and is not bypassed increments the in-flight
\* gauge of its (method, path_template) exactly once and decrements it exactly once,
\* whether call_next returned, raised an error that was recorded, or raised an
\* error that was not caught; the gauge holds exactly these increments and decrements.
C1_GaugeOnceUpOnceDown ==
    /\ \A r \in Reqs :
        /\ task[r].incs \in {0, 1}
        /\ task[r].decs \in {0, 1}
        /\ task[r].decs <= task[r].incs
        /\ (Instrumented(r) /\ task[r].pc = "L54") => (task[r].incs = 1 /\ task[r].decs = 0)
        /\ (Instrumented(r) /\ task[r].pc = "done") => (task[r].incs = 1 /\ task[r].decs = 1)
    /\ \A l \in KnownLabels :
        Value(requests_in_progress, l) =
            Cardinality({q \in Reqs : Labels(q) = l /\ task[q].incs = 1 /\ task[q].decs = 0})

\* One request left dispatch with an error that was recorded, another with an
\* error that except Exception does not catch
C1_Witness ==
    \E r, q \in Reqs :
        /\ Instrumented(r) /\ task[r].pc = "done"
        /\ task[r].outcome.kind = "error" /\ task[r].outcome.is_exception
        /\ Instrumented(q) /\ task[q].pc = "done"
        /\ task[q].outcome.kind = "error" /\ ~task[q].outcome.is_exception
        /\ task[r].incs = 1 /\ task[r].decs = 1 /\ task[q].incs = 1 /\ task[q].decs = 1

----------------------------------------------------------------------------
(* C2 *)

\* C2: once a request to a registered route whose call_next returned a response has
\* completed, requests_total of its (method, path_template) counts it exactly once,
\* responses_total counts it exactly once under the status code of the response
\* returned and under no other, exceptions_total does not count it, and
\* requests_in_progress holds only the requests still in flight.
C2_RegisteredRouteReturns ==
    \A r \in Reqs :
        (/\ task[r].pc = "done"
         /\ task[r].is_handled_path
         /\ task[r].outcome.kind = "response")
        => LET l == Labels(r)
           IN  /\ Value(requests, l) = CountedRequests(l)
               /\ \A s \in StatusCodes :
                    Value(responses, <<l[1], l[2], s>>) = CountedResponses(l, s)
               /\ CountedResponses(l, task[r].result.status_code) >= 1
               /\ \A x \in DOMAIN responses :
                    (x[1] = l[1] /\ x[2] = l[2]) => x[3] \in StatusCodes
               /\ \A ty \in ErrorTypes :
                    Value(exceptions, <<l[1], l[2], ty>>) = CountedExceptions(l, ty)
               /\ \A x \in DOMAIN exceptions :
                    (x[1] = l[1] /\ x[2] = l[2]) => CountedExceptions(l, x[3]) >= 1
               /\ Value(requests_in_progress, l) = InFlight(l)

\* Two requests to the same registered route have returned different status codes
C2_Witness ==
    \E r, q \in Reqs :
        /\ task[r].pc = "done" /\ task[q].pc = "done"
        /\ task[r].is_handled_path /\ task[q].is_handled_path
        /\ Labels(r) = Labels(q)
        /\ task[r].result.kind = "response" /\ task[r].result.status_code = 200
        /\ task[q].result.kind = "response" /\ task[q].result.status_code = 404
        /\ Value(requests, Labels(r)) = 2
        /\ Value(requests_in_progress, Labels(r)) = 0

----------------------------------------------------------------------------
(* C3 *)

----------------------------------------------------------------------------
(* C4 *)

\* C4: dispatch ends with an error exactly when call_next raised one, and then with
\* that same error, after the bookkeeping (the error caught is counted, the gauge
\* decremented) and after a single call of call_next; a request whose call_next
\* returned a response ends with a response.
C4_SameErrorSurfaces ==
    \A r \in Reqs :
        /\ task[r].result.kind # "none" => task[r].pc = "done"
        /\ task[r].pc = "done" =>
            /\ task[r].result.kind = task[r].outcome.kind
            /\ task[r].outcome.kind = "error" =>
                /\ task[r].result = task[r].outcome
                /\ task[r].calls = 1
                /\ Instrumented(r) => task[r].decs = 1
                /\ (Instrumented(r) /\ task[r].outcome.is_exception) =>
                        Value(exceptions, ExceptionLabels(r, task[r].outcome)) >= 1

\* One request ended with the ValueError its call_next raised, another with the
\* CancelledError its call_next raised
C4_Witness ==
    \E r, q \in Reqs :
        /\ task[r].pc = "done" /\ Instrumented(r)
        /\ task[r].result.kind = "error" /\ task[r].result.type = "ValueError"
        /\ task[q].pc = "done" /\ Instrumented(q)
        /\ task[q].result.kind = "error" /\ task[q].result.type = "CancelledError"

----------------------------------------------------------------------------
(* C5 *)

\* Requests to a registered route with the labels l at one of the positions pcs,
\* whatever filter_unhandled_paths is
HandledAt(l, pcs) == {q \in Reqs : task[q].is_handled_path /\ Labels(q) = l /\ task[q].pc \in pcs}

\* The metrics of the labels l count the requests to registered routes, and only them
HandledRecorded(l) ==
    /\ Value(requests, l) = Cardinality(HandledAt(l, {"L54", "L63", "L65", "done"}))
    /\ Value(requests_in_progress, l) =
            Cardinality(HandledAt(l, {"L51", "L54", "L63", "L65"}))
    /\ Value(requests_processing_time, l) =
            Cardinality({q \in HandledAt(l, {"L63", "L65", "done"}) : task[q].outcome.kind = "response"})
    /\ \A s \in StatusCodes :
            Value(responses, <<l[1], l[2], s>>) =
                Cardinality({q \in HandledAt(l, {"L65", "done"}) :
                    task[q].outcome.kind = "response" /\ task[q].outcome.status_code = s})
    /\ \A ty \in ErrorTypes :
            Value(exceptions, <<l[1], l[2], ty>>) =
                Cardinality({q \in HandledAt(l, {"L65", "done"}) :
                    /\ task[q].outcome.kind = "error"
                    /\ task[q].outcome.is_exception
                    /\ task[q].outcome.type = ty})

\* A step of a request that filter_unhandled_paths bypasses
FilteredStep(r) == task'[r] # task[r] /\ filter_unhandled_paths /\ ~task'[r].is_handled_path

\* C5: with filter_unhandled_paths set, no step of a request that no route fully
\* matches changes any metric or creates any label set, whether its call_next
\* returns or raises; the metrics of the registered routes count the requests to them
\* by the same rule whether the option is set or not.
C5_FilteredChangesNothing ==
    /\ [][\A r \in Reqs : FilteredStep(r) => UNCHANGED metrics]_vars
    /\ [](\A r \in Reqs : Filtered(r) =>
            /\ task[r].pc \in {"L48", "done"}
            /\ task[r].incs = 0 /\ task[r].decs = 0
            /\ task[r].pc = "done" => task[r].result = task[r].outcome)
    /\ [](\A r \in Reqs : (task[r].pc # "idle" /\ task[r].is_handled_path) => HandledRecorded(Labels(r)))

\* With the option set, an unmatched request has raised and another has returned,
\* and no metric holds anything
C5_Witness ==
    /\ filter_unhandled_paths
    /\ \E r, q \in Reqs :
        /\ Filtered(r) /\ task[r].pc = "done" /\ task[r].result.kind = "error"
        /\ Filtered(q) /\ task[q].pc = "done" /\ task[q].result.kind = "response"
    /\ DOMAIN requests = {} /\ DOMAIN responses = {} /\ DOMAIN exceptions = {}
    /\ DOMAIN requests_processing_time = {} /\ DOMAIN requests_in_progress = {}

----------------------------------------------------------------------------
(* C6 *)

\* The routes that fully match the request, by their position
FullMatches(rs, request) == {i \in 1..Len(rs) : matches(rs[i], request) = "FULL"}

\* C6: the labels a request gets on entering dispatch are (pattern of the
\* earliest-registered route that fully matches it, true), the pattern being the
\* route's path with its parameters unsubstituted, and (raw request path, false)
\* when no route fully matches; GET /foo/baz/ is labelled /foo/{bar}/.
C6_FirstFullMatchWins ==
    /\ [][\A r \in Reqs : (task[r].pc = "idle" /\ task'[r].pc # "idle") =>
            LET request == [method |-> task'[r].method, path |-> task'[r].path]
                full == FullMatches(routes, request)
            IN  IF full = {}
                THEN task'[r].path_template = request.path /\ ~task'[r].is_handled_path
                ELSE /\ task'[r].is_handled_path
                     /\ \E i \in full :
                            /\ \A j \in full : i <= j
                            /\ task'[r].path_template = routes[i].path]_vars
    /\ [](\A r \in Reqs : task[r].path = <<"foo", "baz">> =>
            (task[r].path_template = <<"foo", "{bar}">> /\ task[r].is_handled_path))

\* GET /metrics/ was received when /metrics/ and the later /{name}/ both fully
\* matched it, and is labelled /metrics/; GET /foo/baz/ is labelled /foo/{bar}/
C6_Witness ==
    /\ Len(routes) > Len(InitialRoutes)
    /\ task[1].path = <<"foo", "baz">> /\ task[1].path_template = <<"foo", "{bar}">>
    /\ task[2].method = "GET" /\ task[2].path = <<"metrics">>
    /\ Cardinality(FullMatches(routes, RequestOf(2))) = 2
    /\ task[2].path_template = <<"metrics">>

----------------------------------------------------------------------------
(* C7 *)

\* C7: with filter_unhandled_paths unset, once a request that no route fully
\* matches has completed with a response, it is labelled with its raw path,
\* requests_total of (method, raw path) counts it exactly once, responses_total
\* counts it exactly once under the status code call_next produced, and
\* requests_in_progress holds only the requests still in flight.
C7_UnhandledPathRecorded ==
    \A r \in Reqs :
        (/\ task[r].pc = "done"
         /\ ~filter_unhandled_paths
         /\ ~task[r].is_handled_path
         /\ task[r].outcome.kind = "response")
        => LET l == <<task[r].method, task[r].path>>
           IN  /\ task[r].path_template = task[r].path
               /\ Value(requests, l) = CountedRequests(l)
               /\ Value(requests, l) >= 1
               /\ \A s \in StatusCodes :
                    Value(responses, <<l[1], l[2], s>>) = CountedResponses(l, s)
               /\ Value(responses, <<l[1], l[2], task[r].outcome.status_code>>) >= 1
               /\ Value(requests_in_progress, l) = InFlight(l)

\* GET /any/ matched no route, got a 404 and is counted under /any/
C7_Witness ==
    /\ ~filter_unhandled_paths
    /\ \E r \in Reqs :
        /\ task[r].pc = "done" /\ ~task[r].is_handled_path
        /\ task[r].path = <<"any">>
        /\ task[r].result.kind = "response" /\ task[r].result.status_code = 404
        /\ Value(requests, <<"GET", <<"any">>>>) = 1
        /\ Value(responses, <<"GET", <<"any">>, 404>>) = 1
        /\ Value(requests_in_progress, <<"GET", <<"any">>>>) = 0

----------------------------------------------------------------------------
(* C8 *)

\* C8: in every state requests_in_progress of a (method, path_template) is the
\* number of requests with these labels, not bypassed, that have passed the
\* increment and not yet the decrement; it is never negative, and each completion,
\* by return or by error, lowers it by exactly 1.
C8_GaugeCountsInFlight ==
    /\ [](\A l \in KnownLabels :
            /\ Value(requests_in_progress, l) = InFlight(l)
            /\ Value(requests_in_progress, l) >= 0)
    /\ [][\A r \in Reqs : (task[r].pc = "L65" /\ task'[r].pc = "done") =>
            Value(requests_in_progress', Labels(r)) = Value(requests_in_progress, Labels(r)) - 1]_vars

\* Two requests to the same route are awaiting call_next and the gauge reads 2
C8_Witness ==
    /\ task[1].pc = "L54" /\ task[2].pc = "L54"
    /\ Labels(1) = Labels(2)
    /\ Value(requests_in_progress, Labels(1)) = 2

----------------------------------------------------------------------------
(* C9 *)

CancellationTypes == {"CancelledError", "TimeoutError"}

\* A request that was not bypassed has completed after call_next was cancelled or timed out
CancelledOrTimedOut(r) ==
    /\ Instrumented(r)
    /\ task[r].pc = "done"
    /\ task[r].outcome.kind = "error"
    /\ task[r].outcome.type \in CancellationTypes

----------------------------------------------------------------------------
(* C10 *)

\* The step in which the metrics endpoint renders the registry for request r
Renders(r) == task[r].rendered = <<>> /\ task'[r].rendered # <<>>

----------------------------------------------------------------------------
(* C11 *)

\* The outcome counter of line 57 or line 63 holds the outcome of the request
OutcomeCounted(r) ==
    CASE task[r].outcome.kind = "response" ->
            Value(responses, ResponseLabels(r)) >= 1
      [] task[r].outcome.kind = "error" /\ task[r].outcome.is_exception ->
            Value(exceptions, ExceptionLabels(r, task[r].outcome)) >= 1
      [] OTHER -> task[r].outcome.kind = "error"

\* The step in which request r, not bypassed, calls call_next (line 54)
Invokes(r) == task[r].pc = "L51" /\ task'[r].calls = task[r].calls + 1

\* The step in which request r decrements the in-flight gauge (line 65)
Decrements(r) == task'[r].decs = task[r].decs + 1

----------------------------------------------------------------------------
(* C12 *)

\* A step of the dispatch call of request r
DispatchStep(r) == task'[r] # task[r]

\* C12: a step of dispatch changes nothing but the metrics (and the locals of the
\* call): not the routes, not the option, and not the method and path of the
\* request, so that call_next gets the request dispatch received; when call_next
\* returns a response, bypassed or not, dispatch returns that response, with the
\* same status code and the same content.
C12_OnlyMetricsChange ==
    /\ [][\A r \in Reqs : DispatchStep(r) =>
            /\ UNCHANGED <<registered, filter_unhandled_paths, routes>>
            /\ task[r].pc # "idle" =>
                    (task'[r].method = task[r].method /\ task'[r].path = task[r].path)
            /\ task[r].outcome.kind # "none" => task'[r].outcome = task[r].outcome]_vars
    /\ [](\A r \in Reqs : task[r].calls >= 1 =>
            RequestOf(r) \in Requests)
    /\ [](\A r \in Reqs : (task[r].pc = "done" /\ task[r].outcome.kind = "response") =>
            /\ task[r].result = task[r].outcome
            /\ task[r].result.status_code = task[r].outcome.status_code
            /\ task[r].result.body = task[r].outcome.body
            /\ task[r].result.body = task[r].rendered)

\* A bypassed request has returned the 404 of call_next, and a request that was
\* not bypassed has returned the 200 and the content the metrics endpoint rendered
C12_Witness ==
    \E r, q \in Reqs :
        /\ Filtered(r) /\ task[r].pc = "done"
        /\ task[r].result.kind = "response" /\ task[r].result.status_code = 404
        /\ Instrumented(q) /\ task[q].pc = "done"
        /\ task[q].result.kind = "response" /\ task[q].result.status_code = 200
        /\ task[q].result.body = Exposition

----------------------------------------------------------------------------
(* C13 *)

\* The names under which the metrics of a construction are registered
NamesOf(construction) == {construction[m].name : m \in MetricAttributes}

\* What the registry holds under a metric name: the samples of the metric that was
\* constructed with this name, nothing when there is none
Exposed(name) ==
    LET ms == {m \in MetricAttributes : registered[m].name = name}
    IN  IF ms = {} THEN <<>> ELSE Registry[CHOOSE m \in ms : TRUE]

\* The requests at one of the positions pcs
At(pcs) == {q \in Reqs : task[q].pc \in pcs}

\* The number of requests of S under each key
Tally(S, Key(_)) == [l \in {Key(q) : q \in S} |-> Cardinality({q \in S : Key(q) = l})]

\* The label values of a request: those the empty prefix gives, the prefix being
\* no part of them
PlainLabels(q) == <<task[q].method, get_path_template(routes, RequestOf(q))[1]>>

PlainResponseLabels(q) == <<PlainLabels(q)[1], PlainLabels(q)[2], task[q].outcome.status_code>>

PlainExceptionLabels(q) == <<PlainLabels(q)[1], PlainLabels(q)[2], task[q].outcome.type>>

Returned(S) == {q \in S : task[q].outcome.kind = "response"}

Caught(S) == {q \in S : task[q].outcome.kind = "error" /\ task[q].outcome.is_exception}

\* The label sets some request has incremented the gauge of, each with the number
\* of its requests in flight
PlainInProgress ==
    [l \in {PlainLabels(q) : q \in At({"L51", "L54", "L63", "L65", "done"})} |->
        Cardinality({q \in At({"L51", "L54", "L63", "L65"}) : PlainLabels(q) = l})]

\* C13: a middleware constructed with the prefix p has registered its five metrics
\* under p followed by starlette_requests_total, starlette_responses_total,
\* starlette_requests_processing_time_seconds, starlette_exceptions_total and
\* starlette_requests_in_progress, with the label names of the empty prefix; what
\* the registry holds under these names is, label set by label set, what the
\* requests received give whatever the prefix is; and no name of a middleware
\* constructed with another prefix is among them.
C13_PrefixOnlyRenames ==
    \E p \in Prefixes :
        /\ registered.requests.name = p \o "starlette_requests_total"
        /\ registered.responses.name = p \o "starlette_responses_total"
        /\ registered.requests_processing_time.name = p \o "starlette_requests_processing_time_seconds"
        /\ registered.exceptions.name = p \o "starlette_exceptions_total"
        /\ registered.requests_in_progress.name = p \o "starlette_requests_in_progress"
        /\ \A m \in MetricAttributes : registered[m].labelnames = __init__("")[m].labelnames
        /\ Cardinality(NamesOf(registered)) = 5
        /\ Exposed(p \o "starlette_requests_total") =
                Tally(At({"L54", "L63", "L65", "done"}), PlainLabels)
        /\ Exposed(p \o "starlette_responses_total") =
                Tally(Returned(At({"L65", "done"})), PlainResponseLabels)
        /\ Exposed(p \o "starlette_requests_processing_time_seconds") =
                Tally(Returned(At({"L63", "L65", "done"})), PlainLabels)
        /\ Exposed(p \o "starlette_exceptions_total") =
                Tally(Caught(At({"L65", "done"})), PlainExceptionLabels)
        /\ Exposed(p \o "starlette_requests_in_progress") = PlainInProgress
        /\ \A q \in Prefixes \ {p} : NamesOf(__init__(q)) \cap NamesOf(registered) = {}

\* The test of the prefix: with the prefix test_, a GET of a registered route has
\* returned 200 and the metrics endpoint is rendering for a GET /metrics/ in flight
C13_Witness ==
    /\ registered.requests.name = "test_starlette_requests_total"
    /\ \E r, q \in Reqs :
        /\ task[r].pc = "done" /\ task[r].path = <<"foo", "baz">>
        /\ task[r].result.kind = "response" /\ task[r].result.status_code = 200
        /\ task[q].pc = "L54" /\ task[q].path = <<"metrics">> /\ task[q].method = "GET"
        /\ task[q].rendered = Exposition
    /\ Value(Exposed("test_starlette_requests_total"), <<"GET", <<"foo", "{bar}">>>>) = 1
    /\ Value(Exposed("test_starlette_responses_total"), <<"GET", <<"foo", "{bar}">>, 200>>) = 1
    /\ Value(Exposed("test_starlette_requests_in_progress"), <<"GET", <<"foo", "{bar}">>>>) = 0
    /\ Value(Exposed("test_starlette_requests_in_progress"), <<"GET", <<"metrics">>>>) = 1
    /\ Exposed("starlette_requests_total") = <<>>

----------------------------------------------------------------------------
(* C14 *)

RECURSIVE SumOver(_, _)
\* The sum of the values a metric holds for the label sets of S
SumOver(metric, S) ==
    IF S = {} THEN 0
    ELSE LET x == CHOOSE y \in S : TRUE
         IN  metric[x] + SumOver(metric, S \ {x})

\* responses_total of (method, path_template), summed over all status codes
SumResponses(l) == SumOver(responses, {x \in DOMAIN responses : x[1] = l[1] /\ x[2] = l[2]})

\* Requests whose processing time is observed (line 60) and whose response is
\* not yet counted (line 63)
ObservedNotCounted(l) == Cardinality(TasksAt(l, {"L63"}))

\* C14: the processing-time histogram of a (method, path_template) holds exactly
\* one observation for each request whose call_next returned and none for a
\* request whose call_next raised; its count is the sum of responses_total over
\* all status codes plus the number of requests that are between the observation
\* of line 60 and the increment of line 63, hence equal to that sum in every state
\* in which no request is between the two, as whenever no task holds the event loop.
C14_ObservedOncePerReturn ==
    /\ [](\A l \in KnownLabels \cup DOMAIN requests_processing_time :
            /\ Value(requests_processing_time, l) = CountedObservations(l)
            /\ Value(requests_processing_time, l) = SumResponses(l) + ObservedNotCounted(l)
            /\ running = 0 => Value(requests_processing_time, l) = SumResponses(l))
    /\ [][\A r \in Reqs :
            /\ (task[r].outcome.kind = "none" /\ task'[r].outcome.kind = "response" /\ Instrumented(r)')
                    => Value(requests_processing_time', Labels(r)) =
                            Value(requests_processing_time, Labels(r)) + 1
            /\ ~(task[r].outcome.kind = "none" /\ task'[r].outcome.kind = "response")
                    => (DispatchStep(r) => UNCHANGED requests_processing_time)]_vars

\* C14 as stated: in every state the count of the histogram of a (method,
\* path_template) equals the sum of responses_total over all status codes
C14_CountEqualsResponsesAlways ==
    \A l \in KnownLabels : Value(requests_processing_time, l) = SumResponses(l)

\* A request is between the observation and the increment of responses_total, the
\* histogram holding one observation more than responses_total holds responses,
\* while the metrics endpoint has rendered for another request still in flight
C14_Witness ==
    \E r, q \in Reqs :
        /\ task[r].pc = "L63"
        /\ Value(requests_processing_time, Labels(r)) = 1
        /\ SumResponses(Labels(r)) = 0
        /\ task[q].pc = "L54" /\ task[q].rendered = Exposition

----------------------------------------------------------------------------
(* C15 *)

\* The (method, path_template) a request got on entering dispatch
EntryLabels(r) == <<task[r].method, task[r].path_template>>

\* The label sets for which a step changes the value of the metric, or which it creates
Touched(metric, metric_after) ==
    {x \in DOMAIN metric_after : x \notin DOMAIN metric \/ metric_after[x] # metric[x]}

\* The first two labels of the label sets of S
Pairs(S) == {<<x[1], x[2]>> : x \in S}

\* C15: the (method, path_template) of a request is computed on entering dispatch,
\* from the routes registered then and before the request has touched any metric,
\* and never changes; every update of a metric by the request is for that pair;
\* the decrement of the gauge is for the label set the request incremented, also
\* when the routes registered have changed since and would give another template.
C15_LabelsComputedOnce ==
    /\ [][\A r \in Reqs : (task[r].pc = "idle" /\ task'[r].pc # "idle") =>
            /\ task[r].incs = 0 /\ task[r].calls = 0
            /\ task'[r].path_template =
                    get_path_template(routes, [method |-> task'[r].method, path |-> task'[r].path])[1]]_vars
    /\ [][\A r \in Reqs : task[r].pc # "idle" =>
            /\ task'[r].method = task[r].method
            /\ task'[r].path_template = task[r].path_template
            /\ task'[r].is_handled_path = task[r].is_handled_path]_vars
    /\ [][\A r \in Reqs : DispatchStep(r) =>
            Pairs(Touched(requests, requests') \cup Touched(responses, responses')
                  \cup Touched(requests_processing_time, requests_processing_time')
                  \cup Touched(exceptions, exceptions')
                  \cup Touched(requests_in_progress, requests_in_progress'))
                \subseteq {<<task'[r].method, task'[r].path_template>>}]_vars
    /\ [][\A r \in Reqs : Decrements(r) =>
            /\ EntryLabels(r) \in DOMAIN requests_in_progress
            /\ requests_in_progress[EntryLabels(r)] >= 1
            /\ requests_in_progress' =
                    [requests_in_progress EXCEPT ![EntryLabels(r)] = @ - 1]]_vars
    /\ [](\A x \in DOMAIN requests_in_progress :
            /\ requests_in_progress[x] >= 0
            /\ \E r \in Reqs : task[r].incs = 1 /\ EntryLabels(r) = x)

\* POST /metrics/ was labelled with its raw path and is about to decrement the
\* gauge; /{name}/ has been registered since it entered and now fully matches it
C15_Witness ==
    /\ ~filter_unhandled_paths
    /\ \E r \in Reqs :
        /\ task[r].pc = "L65"
        /\ task[r].method = "POST" /\ task[r].path_template = <<"metrics">>
        /\ get_path_template(routes, RequestOf(r)) = <<<<"{name}">>, TRUE>>
        /\ Value(requests_in_progress, <<"POST", <<"metrics">>>>) = 1
        /\ <<"POST", <<"{name}">>>> \notin DOMAIN requests_in_progress

----------------------------------------------------------------------------
(* C16 *)

\* The routes that match the request partially (the path, not the method), by
\* their position
PartialMatches(rs, request) == {i \in 1..Len(rs) : matches(rs[i], request) = "PARTIAL"}

\* The step in which request r enters dispatch
Enters(r) == task[r].pc = "idle" /\ task'[r].pc # "idle"

\* C16: a route that matches a request only partially never supplies the path
\* template: when a later route fully matches, the template is the pattern of the
\* first such route; when routes match partially and none fully, the result is
\* (raw request path, false) and the request is bypassed if filter_unhandled_paths
\* is set, recorded under its raw path if not.
C16_PartialMatchSkipped ==
    [][\A r \in Reqs : Enters(r) =>
        LET request == [method |-> task'[r].method, path |-> task'[r].path]
            full == FullMatches(routes, request)
            partial == PartialMatches(routes, request)
            result == <<task'[r].path_template, task'[r].is_handled_path>>
        IN  /\ result = get_path_template(routes, request)
            /\ result[2] => \E i \in full :
                    /\ result[1] = routes[i].path
                    /\ \A j \in 1..(i - 1) : j \notin full
            /\ (partial # {} /\ full # {}) => result[2]
            /\ (partial # {} /\ full = {}) =>
                    /\ result = <<request.path, FALSE>>
                    /\ filter_unhandled_paths =>
                            (task'[r].pc = "L48" /\ task'[r].incs = 0 /\ UNCHANGED metrics)
                    /\ ~filter_unhandled_paths =>
                            (/\ task'[r].pc = "L51" /\ task'[r].incs = 1
                             /\ Touched(requests_in_progress, requests_in_progress') =
                                    {<<request.method, request.path>>})]_vars

\* With filter_unhandled_paths set, a POST /metrics/ that /metrics/ matched only
\* partially was bypassed; after /{name}/ was registered, another POST /metrics/
\* was labelled /{name}/, the partial match of /metrics/ being skipped
C16_Witness ==
    /\ filter_unhandled_paths
    /\ task[1].method = "POST" /\ task[1].path = <<"metrics">>
    /\ Filtered(1) /\ task[1].path_template = <<"metrics">> /\ ~task[1].is_handled_path
    /\ task[2].method = "POST" /\ task[2].path = <<"metrics">>
    /\ task[2].is_handled_path /\ task[2].path_template = <<"{name}">>
    /\ 1 \in PartialMatches(routes, RequestOf(2))
    /\ Value(requests_in_progress, <<"POST", <<"{name}">>>>) = 1

----------------------------------------------------------------------------
(* C17 *)

\* exceptions_total of (method, path_template), summed over all exception types
SumExceptions(l) == SumOver(exceptions, {x \in DOMAIN exceptions : x[1] = l[1] /\ x[2] = l[2]})

\* Requests whose call_next ended with an error that except Exception does not catch
Uncaught(l) ==
    Cardinality({q \in TasksAt(l, {"L65", "done"}) :
                    task[q].outcome.kind = "error" /\ ~task[q].outcome.is_exception})

\* Every call of call_next that has ended has returned a response or raised an
\* instance of Exception
OrdinaryOutcomes ==
    \A q \in Reqs : task[q].outcome.kind = "error" => task[q].outcome.is_exception

\* No task holds the event loop: every dispatch call is before its first step,
\* awaiting call_next, or over
BetweenSteps == running = 0

----------------------------------------------------------------------------
(* C18 *)

\* The positions at which call_next has been called: awaiting it, or past it
CalledPositions == {"L48", "L54", "L63", "L65", "done"}

\* C18: every request, bypassed or not, matched by a route or not, calls call_next
\* exactly once: the call is made by the time the request awaits at line 48 or at
\* line 54, a request that is over has made one call, no step makes a second call,
\* and an outcome is obtained only from the one call made.
C18_CallNextExactlyOnce ==
    /\ [](\A r \in Reqs :
            /\ task[r].calls \in {0, 1}
            /\ task[r].calls = 1 <=> task[r].pc \in CalledPositions
            /\ task[r].pc = "done" => task[r].calls = 1
            /\ task[r].outcome.kind # "none" => task[r].calls = 1)
    /\ [][\A r \in Reqs :
            /\ task'[r].calls # task[r].calls =>
                    (task[r].calls = 0 /\ task'[r].calls = 1 /\ task'[r].pc \in {"L48", "L54"})
            /\ (task[r].pc = "L48" /\ DispatchStep(r)) =>
                    (task'[r].pc \in {"L48", "done"} /\ UNCHANGED metrics)
            /\ (task[r].outcome.kind = "error" /\ DispatchStep(r)) =>
                    task'[r].calls = task[r].calls]_vars

\* With filter_unhandled_paths set, a bypassed request and a request of a
\* registered route whose call_next raised are both over, each after one call
C18_Witness ==
    /\ filter_unhandled_paths
    /\ \E r, q \in Reqs :
        /\ Filtered(r) /\ task[r].pc = "done" /\ task[r].calls = 1
        /\ task[r].incs = 0
        /\ Instrumented(q) /\ task[q].pc = "done" /\ task[q].calls = 1
        /\ task[q].is_handled_path /\ task[q].result.kind = "error"

----------------------------------------------------------------------------
(* C19 *)

\* The positions between the increment of line 50 and the decrement of line 65
InFlightPositions == {"L51", "L54", "L63", "L65"}

\* No request is between the increment and the decrement
NoneInFlight == \A r \in Reqs : ~(Instrumented(r) /\ task[r].pc \in InFlightPositions)

\* C19: when the event loop is fair and every call of call_next finishes, by a
\* response, an error or a cancellation, every request that has incremented the
\* in-flight gauge eventually decrements it and ends; and whenever no request is
\* in flight, requests_in_progress reads 0 for every label set.
C19_EventuallyReleased ==
    /\ \A r \in Reqs :
            (task[r].incs = 1) ~> (task[r].pc = "done" /\ task[r].decs = 1)
    /\ [](NoneInFlight => \A x \in DOMAIN requests_in_progress : requests_in_progress[x] = 0)

\* Two requests have incremented the gauge, the call_next of one was cancelled and
\* that of the other returned; both are over and the gauge reads 0 for their label sets
C19_Witness ==
    /\ NoneInFlight
    /\ DOMAIN requests_in_progress # {}
    /\ \A x \in DOMAIN requests_in_progress : requests_in_progress[x] = 0
    /\ \E r, q \in Reqs :
        /\ task[r].pc = "done" /\ task[r].incs = 1 /\ task[r].decs = 1
        /\ task[r].outcome.kind = "error" /\ ~task[r].outcome.is_exception
        /\ task[q].pc = "done" /\ task[q].incs = 1 /\ task[q].decs = 1
        /\ task[q].outcome.kind = "response"

====
